---- MODULE Spec2Model ----
(***************************************************************************)
(* A model of the CV analysis API: the relational Identity Store (Person,  *)
(* Education, ResumeFile rows), the Vector Index (one point per resume),   *)
(* and the request handlers of backend/api.py with the CRUD and Embedder   *)
(* methods they call.  A handler is a sequence of steps, one per database  *)
(* transaction or external call, so that a failing external call leaves    *)
(* the stores as the code leaves them.                                     *)
(***************************************************************************)
EXTENDS Integers, Sequences, FiniteSets, TLC

VARIABLES
    person,      \* set of Person rows
    education,   \* set of Education rows
    resume_file, \* set of ResumeFile rows
    index,       \* set of points of the Qdrant collection cv_embeddings
    nextId,      \* the three id sequences of the relational store
    proc,        \* per worker: the handler it runs, its locals, its last response
    scope,       \* the configuration of the run: workers, documents, requests
    nreq,        \* number of requests (documents, for a folder) accepted so far
    succeeded    \* history: the ids of the resume files that were set to SUCCESS

vars == <<person, education, resume_file, index, nextId, proc, scope, nreq, succeeded>>

(***************************************************************************)
(* Bounds of the model.                                                    *)
(***************************************************************************)
MaxReq == 3      \* requests (documents) accepted in one behaviour
MaxReqMerge == 2 \* requests accepted in a run about the educations
MaxDocs == 2     \* documents in one Google Drive folder
MaxEdus == 2     \* education entries of one document in such a run
MaxReqConc == 3  \* requests accepted in a run of two concurrent workers

Procs == {"w1", "w2"}

(***************************************************************************)
(* Values.  An email is a sequence of characters so that lower() is a real *)
(* conversion.  "None" stands for Python's None.                           *)
(***************************************************************************)
None == "None"

LowerChar(c) ==
    CASE c = "A" -> "a"
      [] c = "B" -> "b"
      [] OTHER -> c

\* str.lower()
Lower(s) == [i \in DOMAIN s |-> LowerChar(s[i])]

FileNames == {"cv.pdf"}

\* The PDF files of a Google Drive folder, in the order os.listdir gives them:
\* the k-th file has the k-th name, and its text can be extracted or not.
PdfNames == <<"cv.pdf", "cv2.pdf", "cv3.pdf">>

AllFolders ==
    UNION {{[k \in 1..n |-> [name |-> PdfNames[k], readable |-> flags[k]]]
              : flags \in [1..n -> BOOLEAN]}
             : n \in 0..(IF MaxDocs < Len(PdfNames) THEN MaxDocs ELSE Len(PdfNames))}

\* The folders of a run: the runs about one candidate's educations and the
\* runs of two workers take folders whose files can all be read.
Folders(sc) ==
    IF sc \in {"merge", "conc"}
    THEN {files \in AllFolders : \A k \in DOMAIN files : files[k].readable}
    ELSE AllFolders

\* Education entries as the extractor returns them.
EduU1 == [institution |-> "U1", degree |-> "BSc", field |-> "CS", start_date |-> "2010", end_date |-> "2014"]
EduU1b == [institution |-> "U1", degree |-> "BSc", field |-> "CS", start_date |-> "2011", end_date |-> "2015"]
EduU2 == [institution |-> "U2", degree |-> "MSc", field |-> "CS", start_date |-> "2015", end_date |-> "2017"]

PyPayload == [skills |-> {"python"}, years_of_experience |-> 3, description |-> "d1"]
JavaPayload == [skills |-> {"java"}, years_of_experience |-> 7, description |-> "d2"]

Doc(name, email, edus, payload) ==
    [name |-> name, email |-> email, education |-> edus, payload |-> payload]

\* What extractor.extract_and_transform returns for one document: the
\* documents of a run of the whole API ...
ApiDocs ==
    { Doc("Alice", <<"a">>, <<EduU1>>, PyPayload),
      Doc("Alice", <<"A">>, <<EduU1b, EduU2>>, JavaPayload),
      Doc("Bob", <<"b">>, <<EduU1, EduU1b>>, JavaPayload),
      Doc(None, <<"a">>, <<>>, PyPayload),
      Doc("Alice", <<>>, <<>>, PyPayload) }

\* ... and of a run about the educations of one candidate: every list of at
\* most MaxEdus entries.
EduPool == {EduU1, EduU1b, EduU2}

SeqsUpTo(S, n) == UNION {[1..k -> S] : k \in 0..n}

MergeDocs ==
    {Doc("Alice", <<"A">>, l, PyPayload) : l \in SeqsUpTo(EduPool, MaxEdus)}

\* ... and of a run of two concurrent workers: one candidate, whose email
\* is spelled in two ways.
ConcDocs ==
    { Doc("Alice", <<"a">>, <<EduU1>>, PyPayload),
      Doc("Alice", <<"A">>, <<EduU2>>, JavaPayload) }

ExtractedData(sc) ==
    CASE sc = "merge" -> MergeDocs
      [] sc = "conc" -> ConcDocs
      [] OTHER -> ApiDocs

Workers(sc) == IF sc = "conc" THEN Procs ELSE {"w1"}

ReqBound(sc) ==
    CASE sc = "merge" -> MaxReqMerge
      [] sc = "conc" -> MaxReqConc
      [] OTHER -> MaxReq

\* dict.get(key, default)
DictGet(d, k, default) == IF k \in DOMAIN d THEN d[k] ELSE default

(***************************************************************************)
(* Rows of the Identity Store.                                             *)
(***************************************************************************)
PersonRow(id, full_name, email) == [id |-> id, full_name |-> full_name, email |-> email]

EducationRow(id, pid, e) ==
    [id |-> id, person_id |-> pid, institution |-> e.institution, degree |-> e.degree,
     field |-> e.field, start_date |-> e.start_date, end_date |-> e.end_date]

\* A row that is stored as SUCCESS whatever status it is given.
ResumeFileRowSuccess(id, pid, filename, status) ==
    [id |-> id, person_id |-> pid, filename |-> filename, status |-> "SUCCESS"]

ResumeFileRow(id, pid, filename, status) ==
    [id |-> id, person_id |-> pid, filename |-> filename, status |-> status]

Statuses == {"QUEUED", "SUCCESS", "ERROR"}

\* The dedup key of an education: (institution, field, degree).
Key(e) == <<e.institution, e.field, e.degree>>

Max(a, b) == IF a > b THEN a ELSE b
Min(a, b) == IF a < b THEN a ELSE b

\* A relationship collection as the ORM loads it: the rows in id order.
RECURSIVE SortById(_)
SortById(S) ==
    IF S = {} THEN <<>>
    ELSE LET m == CHOOSE x \in S : \A y \in S : x.id <= y.id
         IN  <<m>> \o SortById(S \ {m})

Range(s) == {s[i] : i \in DOMAIN s}

(***************************************************************************)
(* list({(edu.institution, edu.field, edu.degree): edu for edu in          *)
(* educations}.values()): a Python dict keeps a key at the position of its *)
(* first insertion and keeps the value of its last insertion.  The dict is *)
(* a sequence of <<key, value>> pairs.                                     *)
(***************************************************************************)
RECURSIVE DictOf(_)
DictOf(s) ==
    IF s = <<>> THEN <<>>
    ELSE LET d == DictOf(SubSeq(s, 1, Len(s) - 1))
             e == s[Len(s)]
         IN  IF \E i \in DOMAIN d : d[i][1] = Key(e)
             THEN [i \in DOMAIN d |-> IF d[i][1] = Key(e) THEN <<Key(e), e>> ELSE d[i]]
             ELSE Append(d, <<Key(e), e>>)

\* A dedup that keeps every entry.
DedupNothing(s) == s

DedupByKey(s) == LET d == DictOf(s) IN [i \in DOMAIN d |-> d[i][2]]

(***************************************************************************)
(* Constraints of the schema (modules/models.py).                          *)
(***************************************************************************)
\* A unique constraint on a case-sensitive column.
EmailUniqueCaseSensitive(rows, id, email) ==
    \A r \in rows : r.id # id => r.email # email

\* Person.email is CITEXT, unique: no other row has the same email up to case.
EmailUnique(rows, id, email) ==
    \A r \in rows : r.id # id => Lower(r.email) # Lower(email)

\* Person.full_name is nullable=False.
FullNameNotNull(name) == name # None

(***************************************************************************)
(* Lookups of the CRUD class.  0 stands for "no row" (ids start at 1).     *)
(***************************************************************************)
\* CRUD.get_person_by_email: the Person with that canonical email, if any.
get_person_by_email(email) ==
    LET m == {r \in person : Lower(r.email) = email}
    IN  IF m = {} THEN 0 ELSE (CHOOSE r \in m : TRUE).id

\* CRUD.get_person
get_person(id) == {r \in person : r.id = id}

\* CRUD.get_resume_file
get_resume_file(id) == {r \in resume_file : r.id = id}

\* CRUD.get_educations_by_person_id
get_educations_by_person_id(pid) == {e \in education : e.person_id = pid}

\* CRUD.get_resume_files_by_person_id
get_resume_files_by_person_id(pid) == {r \in resume_file : r.person_id = pid}

(***************************************************************************)
(* Inserting a list of new educations for a person: the rows get the next  *)
(* ids of the education sequence in list order.                            *)
(***************************************************************************)
NewEducationRows(pid, edus, firstId) ==
    {EducationRow(firstId + i - 1, pid, edus[i]) : i \in DOMAIN edus}

\* The entries of a list that are not yet rows (id 0), in list order.
RECURSIVE Pending(_)
Pending(s) ==
    IF s = <<>> THEN <<>>
    ELSE IF s[1].id = 0 THEN <<s[1]>> \o Pending(Tail(s)) ELSE Pending(Tail(s))

(***************************************************************************)
(* The embedding provider and the Vector Index.  A vector is one number;   *)
(* the similarity of two vectors falls with their distance.                *)
(***************************************************************************)
Embed(text) ==
    CASE text = "d1" -> 1
      [] text = "d2" -> 2
      [] text = "q1" -> 1
      [] OTHER -> 0

Similarity(u, v) == IF u >= v THEN v - u ELSE u - v

Point(id, vector, skills, yoe, pid) ==
    [id |-> id, vector |-> vector,
     payload |-> [skills |-> skills, years_of_experience |-> yoe, person_id |-> pid]]

\* An insert that keeps the points already stored.
UpsertKeepsOld(points, pt) == points \cup {pt}

\* qdrant upsert: the point replaces any point with the same id.
Upsert(points, pt) == {q \in points : q.id # pt.id} \cup {pt}

\* The filter of query_points: every must condition holds and, when there are
\* should conditions, at least one of them holds.
MatchesFilter(pt, gte, should) ==
    /\ pt.payload.years_of_experience >= gte
    /\ (should = {} \/ \E s \in should : s \in pt.payload.skills)

\* The possible answers of query_points: the limit most similar matching points.
QueryPoints(points, qvec, gte, should, limit) ==
    LET cand == {pt \in points : MatchesFilter(pt, gte, should)}
        n == Min(limit, Cardinality(cand))
    IN  {S \in SUBSET cand :
            /\ Cardinality(S) = n
            /\ \A a \in S, b \in cand \ S :
                 Similarity(qvec, a.vector) >= Similarity(qvec, b.vector)}

(***************************************************************************)
(* The state of a worker.  pc is the position in the handler it runs;      *)
(* resp is the HTTP status of the last response ("500" for an exception    *)
(* that leaves the handler); kind, rid and pid stay after the response so  *)
(* that a concluded attempt can be told from one in flight.                *)
(***************************************************************************)
NoData ==
    [name |-> None, email |-> <<>>, education |-> <<>>,
     payload |-> [skills |-> {}, years_of_experience |-> 0, description |-> ""]]

NoReq == [query |-> "", limit |-> 0, skills |-> <<>>, years_of_experience |-> 0]

\* The text extracted from a PDF file, known by the file it was read from.
extract_text_from_pdf(f) == [from |-> f.name]

\* CV_GDrive_Ingestor.ingest_folder, lines 157-174: raw_texts holds the text
\* of every PDF whose extraction succeeded (a failure is printed and the
\* file is passed over), file_paths the name of every PDF of the directory.
IngestFolder(files) ==
    LET readable == SelectSeq(files, LAMBDA f : f.readable)
    IN  [raw_texts |-> [k \in DOMAIN readable |-> extract_text_from_pdf(readable[k])],
         file_paths |-> [k \in DOMAIN files |-> files[k].name]]

NoIngest == [raw_texts |-> <<>>, file_paths |-> <<>>]

IdleProc ==
    [pc |-> "idle", kind |-> "none", data |-> NoData, filename |-> "", rid |-> 0, pid |-> 0,
     ingested_data |-> NoIngest,
     email |-> <<>>, existing |-> 0, snap |-> <<>>, docs |-> 0, i |-> 0, req |-> NoReq, results |-> {}, hits |-> {},
     resp |-> "none"]

\* The handler of worker p returns (or raises) with the given status.
Respond(p, code) ==
    [IdleProc EXCEPT !.pc = "done", !.kind = proc[p].kind, !.rid = proc[p].rid,
                     !.pid = proc[p].pid, !.resp = code]

\* A handler that answers in one step.
Answer(kind, pid, rid, code) ==
    [IdleProc EXCEPT !.pc = "done", !.kind = kind, !.pid = pid, !.rid = rid, !.resp = code]

\* A worker that is free takes the next request, which brings n documents
\* (a request without a document counts as one).
AcceptDocs(p, n) ==
    /\ p \in Workers(scope)
    /\ proc[p].pc = "idle"
    /\ nreq + Max(n, 1) <= ReqBound(scope)
    /\ nreq' = nreq + Max(n, 1)

Accept(p) == AcceptDocs(p, 1)

StoreUnchanged == UNCHANGED <<person, education, resume_file, index, nextId>>

Init ==
    /\ person = {}
    /\ education = {}
    /\ resume_file = {}
    /\ index = {}
    /\ nextId = [person |-> 1, education |-> 1, resume |-> 1]
    /\ proc = [p \in Procs |-> IdleProc]
    /\ scope = "api"
    /\ nreq = 0
    /\ succeeded = {}

(***************************************************************************)
(* upload_file and upload_by_google_drive_url (the same pipeline): the     *)
(* file is ingested and the extractor returns d.                           *)
(***************************************************************************)
\* An upload that embeds under the ids the rows would get, before
\* create_person has stored them.
ReqUploadEmbedsFirst(p, d, fn) ==
    /\ Accept(p)
    /\ proc' = [proc EXCEPT ![p] =
                  [IdleProc EXCEPT !.pc = "embed", !.kind = "upload", !.data = d,
                                   !.filename = fn, !.pid = nextId.person,
                                   !.rid = nextId.resume]]
    /\ StoreUnchanged
    /\ UNCHANGED <<scope, succeeded>>

ReqUpload(p, d, fn) ==
    /\ Accept(p)
    /\ proc' = [proc EXCEPT ![p] =
                  [IdleProc EXCEPT !.pc = "lookup", !.kind = "upload", !.data = d,
                                   !.filename = fn]]
    /\ StoreUnchanged
    /\ UNCHANGED <<scope, succeeded>>

\* Ingestion or extraction raises before anything was written.
ReqUploadFails(p) ==
    /\ Accept(p)
    /\ proc' = [proc EXCEPT ![p] = Answer("upload", 0, 0, "500")]
    /\ StoreUnchanged
    /\ UNCHANGED <<scope, succeeded>>

(***************************************************************************)
(* CRUD.create_person, lines 18-23: the email is lowercased, the existing  *)
(* Person is looked up and its collections are loaded.                     *)
(***************************************************************************)
CreatePersonLookup(p) ==
    /\ proc[p].pc = "lookup"
    /\ LET email == Lower(proc[p].data.email)
           ex == get_person_by_email(email)
       IN  proc' = [proc EXCEPT ![p].pc = "commit",
                                ![p].email = email,
                                ![p].existing = ex,
                                ![p].snap = IF ex = 0 THEN <<>>
                                            ELSE SortById(get_educations_by_person_id(ex))]
    /\ StoreUnchanged
    /\ UNCHANGED <<scope, succeeded, nreq>>

\* A handler that goes from create_person straight to the status write.
AfterCreateSkipsEmbed(p, pid, rid) ==
    [proc[p] EXCEPT !.pc = "status", !.pid = pid, !.rid = rid, !.snap = <<>>]

\* After create_person: the handler goes on to embed_cv with the returned ids.
AfterCreate(p, pid, rid) ==
    [proc[p] EXCEPT !.pc = "embed", !.pid = pid, !.rid = rid, !.snap = <<>>]

\* An exception leaves the handler; in a folder it ends the whole loop.
Raise(p) == Respond(p, "500")

(***************************************************************************)
(* CRUD.create_person, lines 20-31: the merge branch.  The educations are  *)
(* the existing rows followed by the new entries, deduplicated by key; the *)
(* existing rows that are no longer in the collection are deleted as       *)
(* orphans, the new entries that remain are inserted.  The new resume file *)
(* is appended.                                                            *)
(***************************************************************************)
MergeEducations(existingRows, newEdus) ==
    DedupByKey(existingRows \o [i \in DOMAIN newEdus |-> EducationRow(0, 0, newEdus[i])])

\* The collection assigned is the new resume files alone: the rows the
\* person had are deleted as orphans.
ReplaceResumeFiles(rows, pid, new) == {r \in rows : r.person_id # pid} \cup {new}

\* existing_person.resume_files + resume_files (line 23): the rows of the
\* table once the collection is assigned and flushed.
AppendResumeFiles(rows, pid, new) == rows \cup {new}

\* A return value that holds the whole collection of the person.
ReturnedAllResumeFiles(stored, new) == stored \o new

\* crud.py lines 31 and 38: the third component returned is the list the
\* caller passed in.
ReturnedResumeFiles(stored, new) == new

CreatePersonMerge(p) ==
    LET pr == proc[p]
        ex == pr.existing
        merged == MergeEducations(pr.snap, pr.data.education)
        kept == {e.id : e \in Range(merged)} \ {0}
        orphans == {e.id : e \in Range(pr.snap)} \ kept
        added == Pending(merged)
        rid == nextId.resume
        returned == ReturnedResumeFiles(SortById(get_resume_files_by_person_id(ex)),
                                        <<ResumeFileRow(rid, ex, pr.filename, "QUEUED")>>)
    IN  IF get_person(ex) = {}
        THEN /\ proc' = [proc EXCEPT ![p] = Raise(p)]
             /\ StoreUnchanged
        ELSE /\ education' = {e \in education : e.id \notin orphans}
                               \cup NewEducationRows(ex, added, nextId.education)
             /\ resume_file' = AppendResumeFiles(resume_file, ex,
                                   ResumeFileRow(rid, ex, pr.filename, "QUEUED"))
             /\ nextId' = [nextId EXCEPT !.education = @ + Len(added), !.resume = @ + 1]
             /\ proc' = [proc EXCEPT ![p] = AfterCreate(p, ex, returned[1].id)]
             /\ UNCHANGED <<person, index>>

(***************************************************************************)
(* CRUD.create_person, lines 33-38: the create branch.  The commit fails   *)
(* on a NOT NULL or unique violation and then nothing is written.          *)
(***************************************************************************)
CreatePersonInsert(p) ==
    LET pr == proc[p]
        pid == nextId.person
        rid == nextId.resume
        returned == ReturnedResumeFiles(<<>>, <<ResumeFileRow(rid, pid, pr.filename, "QUEUED")>>)
    IN  IF ~(FullNameNotNull(pr.data.name) /\ EmailUnique(person, pid, pr.email))
        THEN /\ proc' = [proc EXCEPT ![p] = Raise(p)]
             /\ StoreUnchanged
        ELSE /\ person' = person \cup {PersonRow(pid, pr.data.name, pr.email)}
             /\ education' = education
                               \cup NewEducationRows(pid, pr.data.education, nextId.education)
             /\ resume_file' = resume_file
                               \cup {ResumeFileRow(rid, pid, pr.filename, "QUEUED")}
             /\ nextId' = [person |-> pid + 1,
                           education |-> nextId.education + Len(pr.data.education),
                           resume |-> rid + 1]
             /\ proc' = [proc EXCEPT ![p] = AfterCreate(p, pid, returned[1].id)]
             /\ UNCHANGED index

CreatePersonCommit(p) ==
    /\ proc[p].pc = "commit"
    /\ IF proc[p].existing # 0 THEN CreatePersonMerge(p) ELSE CreatePersonInsert(p)
    /\ UNCHANGED <<scope, succeeded, nreq>>

(***************************************************************************)
(* Embedder.embed_cv: the description is embedded and one point, keyed by  *)
(* the resume id, is upserted.                                             *)
(***************************************************************************)
\* A point keyed by the person and owned by the resume.
CvPointSwapped(pid, rid, payload) ==
    Point(pid, Embed(payload.description), payload.skills, payload.years_of_experience, rid)

\* embedder.py lines 86-101
CvPoint(pid, rid, payload) ==
    Point(rid, Embed(payload.description), payload.skills, payload.years_of_experience, pid)

EmbedCv(p) ==
    /\ proc[p].pc = "embed"
    /\ IF proc[p].pid = 0 \/ proc[p].rid = 0
       THEN /\ proc' = [proc EXCEPT ![p] = Raise(p)]
            /\ UNCHANGED index
       ELSE /\ index' = Upsert(index, CvPoint(proc[p].pid, proc[p].rid, proc[p].data.payload))
            /\ proc' = [proc EXCEPT ![p].pc = "status"]
    /\ UNCHANGED <<person, education, resume_file, nextId, scope, succeeded, nreq>>

\* An embed_cv that writes the point and then fails.
EmbedCvFailsAfterUpsert(p) ==
    /\ proc[p].pc = "embed"
    /\ index' = Upsert(index, CvPoint(proc[p].pid, proc[p].rid, proc[p].data.payload))
    /\ proc' = [proc EXCEPT ![p] = Raise(p)]
    /\ UNCHANGED <<person, education, resume_file, nextId, scope, succeeded, nreq>>

\* Embedder.embed raises (the provider call failed, embedder.py line 91): the
\* exception leaves embed_cv before the upsert of lines 102-105, and the
\* handler, which has no except clause.
EmbedCvFails(p) ==
    /\ proc[p].pc = "embed"
    /\ proc' = [proc EXCEPT ![p] = Raise(p)]
    /\ StoreUnchanged
    /\ UNCHANGED <<scope, succeeded, nreq>>

(***************************************************************************)
(* CRUD.update_resume_file_status(resume_file.id, "SUCCESS"), the last     *)
(* step of every pipeline.  A folder upload goes on with its next document.*)
(***************************************************************************)
\* A status write that records a failure whatever status it is given.
SetStatusError(rows, rid, status) ==
    {IF r.id = rid THEN [r EXCEPT !.status = "ERROR"] ELSE r : r \in rows}

SetStatus(rows, rid, status) ==
    {IF r.id = rid THEN [r EXCEPT !.status = status] ELSE r : r \in rows}

\* A lookup that never misses.
RowFoundAlways(rows, rid) == TRUE

\* crud.py lines 160-162: self.db.get(ResumeFile, id) finds the row or the
\* call raises.
RowFound(rows, rid) == \E r \in rows : r.id = rid

UpdateStatusSuccess(p) ==
    /\ proc[p].pc = "status"
    /\ IF ~RowFound(resume_file, proc[p].rid)
       THEN /\ proc' = [proc EXCEPT ![p] = Raise(p)]
            /\ UNCHANGED <<resume_file, succeeded>>
       ELSE /\ resume_file' = SetStatus(resume_file, proc[p].rid, "SUCCESS")
            /\ succeeded' = succeeded \cup {proc[p].rid}
            /\ proc' = [proc EXCEPT ![p] =
                          IF proc[p].kind = "folder"
                          THEN [proc[p] EXCEPT !.pc = "next_doc", !.docs = @ - 1, !.i = @ + 1,
                                               !.data = NoData, !.rid = 0, !.pid = 0,
                                               !.filename = "",
                                               !.email = <<>>, !.existing = 0]
                          ELSE Respond(p, IF proc[p].kind = "update" THEN "200" ELSE "201")]
    /\ UNCHANGED <<person, education, index, nextId, scope, nreq>>

(***************************************************************************)
(* upload_by_google_drive_folder_url: ingest_folder returns the texts of   *)
(* the folder, and the loop extracts and processes them one after the      *)
(* other.                                                                  *)
(***************************************************************************)
ReqFolder(p, files) ==
    LET ingested_data == IngestFolder(files)
    IN  /\ AcceptDocs(p, Len(ingested_data.raw_texts))
        /\ proc' = [proc EXCEPT ![p] =
                      [IdleProc EXCEPT !.pc = "next_doc", !.kind = "folder",
                                       !.docs = Len(ingested_data.raw_texts),
                                       !.ingested_data = ingested_data]]
    /\ StoreUnchanged
    /\ UNCHANGED <<scope, succeeded>>

\* A loop that skips no document.
SkipNoDocument(d) == FALSE

\* api.py lines 207-208: a document without a name is skipped.
SkipDocument(d) == d.name = None

\* The extractor returns d for the next text (the i-th of raw_texts, counted
\* from 0); the file name is the i-th of file_paths (api.py line 205).
FolderNextDoc(p, d) ==
    /\ proc[p].pc = "next_doc"
    /\ proc[p].docs > 0
    /\ proc' = [proc EXCEPT ![p] =
                  IF SkipDocument(d)
                  THEN [proc[p] EXCEPT !.docs = @ - 1, !.i = @ + 1]
                  ELSE [proc[p] EXCEPT !.pc = "lookup", !.data = d,
                           !.filename = proc[p].ingested_data.file_paths[proc[p].i + 1]]]
    /\ StoreUnchanged
    /\ UNCHANGED <<scope, succeeded, nreq>>

\* The extractor raises for the next document: the exception leaves the loop.
FolderExtractFails(p) ==
    /\ proc[p].pc = "next_doc"
    /\ proc[p].docs > 0
    /\ proc' = [proc EXCEPT ![p] = [Raise(p) EXCEPT !.rid = 0, !.pid = 0]]
    /\ StoreUnchanged
    /\ UNCHANGED <<scope, succeeded, nreq>>

FolderDone(p) ==
    /\ proc[p].pc = "next_doc"
    /\ proc[p].docs = 0
    /\ proc' = [proc EXCEPT ![p] = [Respond(p, "201") EXCEPT !.rid = 0, !.pid = 0]]
    /\ StoreUnchanged
    /\ UNCHANGED <<scope, succeeded, nreq>>

(***************************************************************************)
(* update_cv: the new file is ingested and extracted (d), then the resume  *)
(* file is read and checked, set to QUEUED, the person and its educations  *)
(* are rewritten, and the pipeline ends as an upload does.  Every CRUD     *)
(* call commits on its own.                                                *)
(***************************************************************************)
ReqUpdate(p, rid, d, fn) ==
    /\ Accept(p)
    /\ proc' = [proc EXCEPT ![p] =
                  [IdleProc EXCEPT !.pc = "u_check", !.kind = "update", !.data = d,
                                   !.filename = fn, !.rid = rid]]
    /\ StoreUnchanged
    /\ UNCHANGED <<scope, succeeded>>

\* A check that lets every resume file be updated.
UpdateAllowedAlways(status) == TRUE

\* api.py line 289: only a resume file in SUCCESS may be updated.
UpdateAllowed(status) == status = "SUCCESS"

\* api.py lines 285-290
UpdateCheck(p) ==
    /\ proc[p].pc = "u_check"
    /\ LET found == get_resume_file(proc[p].rid)
       IN  proc' = [proc EXCEPT ![p] =
                      IF found = {} THEN Respond(p, "404")
                      ELSE LET r == CHOOSE x \in found : TRUE
                           IN  IF ~UpdateAllowed(r.status) THEN Respond(p, "400")
                               ELSE [proc[p] EXCEPT !.pc = "u_queue", !.pid = r.person_id]]
    /\ StoreUnchanged
    /\ UNCHANGED <<scope, succeeded, nreq>>

\* api.py lines 292-299, CRUD.update_resume_file_by_id
UpdateQueue(p) ==
    /\ proc[p].pc = "u_queue"
    /\ IF get_resume_file(proc[p].rid) = {}
       THEN /\ proc' = [proc EXCEPT ![p] = Raise(p)]
            /\ UNCHANGED resume_file
       ELSE /\ resume_file' =
                 {IF r.id = proc[p].rid
                  THEN [r EXCEPT !.filename = proc[p].filename, !.status = "QUEUED"]
                  ELSE r : r \in resume_file}
            /\ proc' = [proc EXCEPT ![p].pc = "u_person"]
    /\ UNCHANGED <<person, education, index, nextId, scope, succeeded, nreq>>

\* api.py lines 301-322, CRUD.update_person: the extracted fields are written
\* as they are.
UpdatePerson(p) ==
    /\ proc[p].pc = "u_person"
    /\ LET pid == proc[p].pid
           d == proc[p].data
       IN  IF get_person(pid) = {}
           THEN /\ proc' = [proc EXCEPT ![p] = Respond(p, "404")]
                /\ UNCHANGED person
           ELSE IF ~(FullNameNotNull(d.name) /\ EmailUnique(person, pid, d.email))
           THEN /\ proc' = [proc EXCEPT ![p] = Raise(p)]
                /\ UNCHANGED person
           ELSE /\ person' = {IF r.id = pid THEN PersonRow(pid, d.name, d.email) ELSE r
                                : r \in person}
                /\ proc' = [proc EXCEPT ![p].pc = "u_edu"]
    /\ UNCHANGED <<education, resume_file, index, nextId, scope, succeeded, nreq>>

\* A clear that deletes no row.
ClearKeepsRows(rows, pid) == rows

\* crud.py line 131: person.educations.clear() on a delete-orphan collection
\* deletes every row of the person at the commit.
ClearEducations(rows, pid) == {e \in rows : e.person_id # pid}

\* CRUD.update_education_by_person_id: the list is deduplicated, the
\* collection is cleared (its rows are deleted as orphans) and refilled.
UpdateEducationByPersonId(p) ==
    /\ proc[p].pc = "u_edu"
    /\ LET pid == proc[p].pid
           d == proc[p].data
           edus == DedupByKey(d.education)
       IN  IF get_person(pid) = {}
           THEN /\ proc' = [proc EXCEPT ![p] = Raise(p)]
                /\ UNCHANGED <<education, nextId>>
           ELSE /\ education' = ClearEducations(education, pid)
                                  \cup NewEducationRows(pid, edus, nextId.education)
                /\ nextId' = [nextId EXCEPT !.education = @ + Len(edus)]
                /\ proc' = [proc EXCEPT ![p].pc = "embed"]
    /\ UNCHANGED <<person, resume_file, index, scope, succeeded, nreq>>

(***************************************************************************)
(* delete_person and delete_resume_file: one transaction each.  Neither    *)
(* handler touches the Vector Index.                                       *)
(***************************************************************************)
\* A delete that leaves the rows the person owned.
DeleteOwnedNone(rows, pid) == rows

\* crud.py lines 177-180: the rows the person owns are deleted with it.
DeleteOwned(rows, pid) == {r \in rows : r.person_id # pid}

DeletePerson(p, pid) ==
    /\ Accept(p)
    /\ IF get_person(pid) = {}
       THEN /\ proc' = [proc EXCEPT ![p] = Answer("delete_person", pid, 0, "404")]
            /\ UNCHANGED <<person, education, resume_file>>
       ELSE /\ person' = {r \in person : r.id # pid}
            /\ education' = DeleteOwned(education, pid)
            /\ resume_file' = DeleteOwned(resume_file, pid)
            /\ proc' = [proc EXCEPT ![p] = Answer("delete_person", pid, 0, "200")]
    /\ UNCHANGED <<index, nextId, scope, succeeded>>

DeleteResumeFile(p, rid) ==
    /\ Accept(p)
    /\ IF get_resume_file(rid) = {}
       THEN /\ proc' = [proc EXCEPT ![p] = Answer("delete_resume_file", 0, rid, "404")]
            /\ UNCHANGED resume_file
       ELSE /\ resume_file' = {r \in resume_file : r.id # rid}
            /\ proc' = [proc EXCEPT ![p] = Answer("delete_resume_file", 0, rid, "200")]
    /\ UNCHANGED <<person, education, index, nextId, scope, succeeded>>

(***************************************************************************)
(* search_cv and Embedder.search_with_filter.  The handler builds a filter *)
(* dict; search_with_filter reads its keys.                                *)
(***************************************************************************)
SearchRequests ==
    [query : {"q1"}, limit : {1, 5}, skills : {<<>>, <<"python">>},
     years_of_experience : {0, 5}]

\* A value of a dict that may be None: <<>> is None, <<v>> is the value v.
Some(v) == <<v>>

IsNone(o) == o = <<>>

\* api.py lines 366-369: "payload.skills or []" and
\* "payload.years_of_experience or 0" are never None.
SearchFilter(req) ==
    [skills |-> Some(req.skills), years_of_experience |-> Some(req.years_of_experience)]

\* Embedder.search: the limit most similar points, no filter.
search(points, query, limit) ==
    LET n == Min(limit, Cardinality(points))
    IN  {S \in SUBSET points :
            /\ Cardinality(S) = n
            /\ \A a \in S, b \in points \ S :
                 Similarity(Embed(query), a.vector) >= Similarity(Embed(query), b.vector)}

\* embedder.py lines 139-141: a query filter is sent unless both values read
\* from the filter dict are None.
SendsFilter(filter) ==
    LET skills == DictGet(filter, "skills", Some(<<>>))
        yoe == DictGet(filter, "yoe", Some(0))
    IN  ~(IsNone(skills) /\ IsNone(yoe))

\* embedder.py lines 139-164: the possible lists of points, as sets.
search_with_filter(points, query, filter, limit) ==
    LET skills == DictGet(filter, "skills", Some(<<>>))
        yoe == DictGet(filter, "yoe", Some(0))
    IN  IF ~SendsFilter(filter)
        THEN search(points, query, limit)
        ELSE QueryPoints(points, Embed(query), yoe[1], Range(skills[1]), limit)

\* api.py lines 380-388: the response entries built from the points.
SearchResponse(results) ==
    LET person_ids == {pt.payload.person_id : pt \in results}
        resume_ids == {pt.id : pt \in results}
    IN  {[person_id |-> pt.payload.person_id,
          resume_id |-> pt.id,
          person_found |-> get_person(pt.payload.person_id) # {},
          resume_file_found |-> get_resume_file(pt.id) # {}]
           : pt \in {q \in results : q.payload.person_id \in person_ids /\ q.id \in resume_ids}}

SearchCv(p, req) ==
    /\ Accept(p)
    /\ \E results \in search_with_filter(index, req.query, SearchFilter(req), req.limit) :
         proc' = [proc EXCEPT ![p] =
                    [Answer("search", 0, 0, "200") EXCEPT
                        !.req = req, !.results = results, !.hits = SearchResponse(results)]]
    /\ StoreUnchanged
    /\ UNCHANGED <<scope, succeeded>>

\* The response has been sent: the worker is free for the next request.
Return(p) ==
    /\ proc[p].pc = "done"
    /\ proc' = [proc EXCEPT ![p] = IdleProc]
    /\ StoreUnchanged
    /\ UNCHANGED <<scope, succeeded, nreq>>

(***************************************************************************)
(* The next-state relation.                                                *)
(***************************************************************************)
Next ==
    \E p \in Procs :
        \/ \E d \in ExtractedData(scope), fn \in FileNames : ReqUpload(p, d, fn)
        \/ ReqUploadFails(p)
        \/ CreatePersonLookup(p)
        \/ CreatePersonCommit(p)
        \/ EmbedCv(p)
        \/ EmbedCvFails(p)
        \/ UpdateStatusSuccess(p)
        \/ \E files \in Folders(scope) : ReqFolder(p, files)
        \/ \E d \in ExtractedData(scope) : FolderNextDoc(p, d)
        \/ FolderExtractFails(p)
        \/ FolderDone(p)
        \/ \E rid \in 1..nextId.resume, d \in ExtractedData(scope), fn \in FileNames :
               ReqUpdate(p, rid, d, fn)
        \/ UpdateCheck(p)
        \/ UpdateQueue(p)
        \/ UpdatePerson(p)
        \/ UpdateEducationByPersonId(p)
        \/ \E pid \in 1..nextId.person : DeletePerson(p, pid)
        \/ \E rid \in 1..nextId.resume : DeleteResumeFile(p, rid)
        \/ \E req \in SearchRequests : SearchCv(p, req)
        \/ Return(p)

Spec == Init /\ [][Next]_vars

\* The runs about the educations of one candidate.
InitMerge ==
    /\ person = {}
    /\ education = {}
    /\ resume_file = {}
    /\ index = {}
    /\ nextId = [person |-> 1, education |-> 1, resume |-> 1]
    /\ proc = [p \in Procs |-> IdleProc]
    /\ scope = "merge"
    /\ nreq = 0
    /\ succeeded = {}

SpecMerge == InitMerge /\ [][Next]_vars

\* The runs of two workers that serve requests concurrently.
InitConc ==
    /\ person = {}
    /\ education = {}
    /\ resume_file = {}
    /\ index = {}
    /\ nextId = [person |-> 1, education |-> 1, resume |-> 1]
    /\ proc = [p \in Procs |-> IdleProc]
    /\ scope = "conc"
    /\ nreq = 0
    /\ succeeded = {}

SpecConc == InitConc /\ [][Next]_vars

(***************************************************************************)
(* Properties.                                                             *)
(***************************************************************************)
Keys(S) == {Key(e) : e \in S}

\* The entry of an education row, without its ids.
Entry(e) ==
    [institution |-> e.institution, degree |-> e.degree, field |-> e.field,
     start_date |-> e.start_date, end_date |-> e.end_date]

\* A pipeline attempt on the resume file rid has begun and has not concluded.
InFlightOn(rid) ==
    \E p \in Procs : proc[p].rid = rid /\ proc[p].pc \in {"embed", "status", "u_person", "u_edu"}

\* Worker p commits create_person on the merge branch in this step.
MergeStep(p) == proc[p].pc = "commit" /\ proc[p].existing # 0 /\ proc'[p].pc = "embed"

\* Worker p commits create_person (either branch) in this step.
CommitStep(p) == proc[p].pc = "commit" /\ proc'[p].pc = "embed"

\* Worker p answers a search in this step.
SearchStep(p) == proc[p].pc = "idle" /\ proc'[p].pc = "done" /\ proc'[p].kind = "search"

SearchDone(p) == proc[p].pc = "done" /\ proc[p].kind = "search"

\* C1: once a pipeline attempt on a ResumeFile has concluded (with success or
\* with a failure), the status of the ResumeFile is not QUEUED: a QUEUED row
\* has an attempt in flight.
C1_NoQueuedAfterAttempt ==
    \A r \in resume_file : r.status = "QUEUED" => InFlightOn(r.id)

\* C2: in every reachable state no two Person rows have the same normalized
\* (lowercase) email.
C2_OnePersonPerEmail ==
    \A r1, r2 \in person : Lower(r1.email) = Lower(r2.email) => r1 = r2

\* A candidate uploaded as "a" and then as "A" is one Person with two resumes.
C2_Witness ==
    \E p \in Procs :
        /\ proc[p].pc = "embed"
        /\ proc[p].existing # 0
        /\ proc[p].data.email = <<"A">>
        /\ Cardinality(person) = 1
        /\ \E r \in person :
             /\ r.id = proc[p].existing
             /\ r.email = <<"a">>
             /\ Cardinality(get_resume_files_by_person_id(r.id)) = 2
             /\ \E pt \in index : pt.payload.person_id = r.id /\ pt.payload.skills = {"python"}

\* C3: on the merge branch of create_person, whatever the stored educations
\* L1 and the new educations L2, the educations of the Person afterwards hold
\* no two entries with the same (institution, field, degree) and hold every
\* triple of L1 and of L2.
C3_MergeDedup ==
    [][\A p \in Procs :
         MergeStep(p) =>
           LET ex == proc[p].existing
               L1 == get_educations_by_person_id(ex)
               L2 == Range(proc[p].data.education)
               R == {e \in education' : e.person_id = ex}
           IN  /\ \A e1, e2 \in R : Key(e1) = Key(e2) => e1 = e2
               /\ Keys(R) = Keys(L1) \cup Keys(L2)]_vars

\* A merge has run whose new list held the same triple twice and whose stored
\* list held another triple.
C3_Witness ==
    \E p \in Procs :
        /\ proc[p].pc = "embed"
        /\ proc[p].existing # 0
        /\ proc[p].data.education = <<EduU1b, EduU1>>
        /\ Keys(get_educations_by_person_id(proc[p].existing)) = {Key(EduU1), Key(EduU2)}
        /\ Cardinality(get_educations_by_person_id(proc[p].existing)) = 2

\* C4: in every reachable state no Person owns two Education rows with the
\* same (institution, field, degree).
C4_NoDuplicateEducation ==
    \A e1, e2 \in education :
        (e1.person_id = e2.person_id /\ Key(e1) = Key(e2)) => e1 = e2

\* C5: every Embedding Record's id is the id of an existing ResumeFile row (a
\* delete is one step, so no state has a delete in flight).
C5_NoOrphanPoint ==
    \A pt \in index : get_resume_file(pt.id) # {}

\* C6: every hit returned by search_cv references a Person and a ResumeFile
\* that exist in the Identity Store at the time of the search.
C6_HitsExist ==
    \A p \in Procs :
        SearchDone(p) => \A h \in proc[p].hits : h.person_found /\ h.resume_file_found

\* C7: every hit returned by search_cv has payload years_of_experience at
\* least the requested minimum.
C7_HardExperienceFilter ==
    \A p \in Procs :
        SearchDone(p) =>
          \A h \in proc[p].hits : \A pt \in proc[p].results :
              pt.id = h.resume_id =>
                pt.payload.years_of_experience >= proc[p].req.years_of_experience

\* C8: a point that satisfies the years-of-experience threshold is returned
\* whatever its skills are, when the limit leaves room for every point.
C8_SkillsAreSoft ==
    [][\A p \in Procs :
         (SearchStep(p) /\ Cardinality(index) <= proc'[p].req.limit) =>
           \A pt \in index :
               pt.payload.years_of_experience >= proc'[p].req.years_of_experience =>
                 \E h \in proc'[p].hits : h.resume_id = pt.id]_vars

\* C9: on the merge branch a stored education whose triple a new entry has
\* stays as it is, and a new entry becomes a row only when the Person had no
\* stored education with its triple.
C9_StoredEntryWins ==
    [][\A p \in Procs :
         MergeStep(p) =>
           LET ex == proc[p].existing
               L1 == get_educations_by_person_id(ex)
               L2 == Range(proc[p].data.education)
           IN  /\ \A e \in L1 : Key(e) \in Keys(L2) => e \in education'
               /\ \A e \in education' \ education : Key(e) \notin Keys(L1)]_vars

\* C10: a ResumeFile row appears only when create_person commits, and then
\* exactly one appears and none goes; and the second upload of a candidate
\* stored with the education {U1} that brings {U1, U2} leaves one Person,
\* two Education rows and two ResumeFile rows.
C10_UploadAddsOneResume ==
    [][/\ \A p \in Procs :
            CommitStep(p) =>
              /\ resume_file \subseteq resume_file'
              /\ Cardinality(resume_file' \ resume_file) = 1
       /\ (\E r \in resume_file' : get_resume_file(r.id) = {}) =>
              \E p \in Procs : CommitStep(p)
       /\ \A p \in Procs :
            ( /\ MergeStep(p)
              /\ Cardinality(person) = 1
              /\ {Entry(e) : e \in education} = {EduU1}
              /\ Cardinality(education) = 1
              /\ Cardinality(resume_file) = 1
              /\ proc[p].data.education = <<EduU1, EduU2>> ) =>
                /\ Cardinality(person') = 1
                /\ Cardinality(education') = 2
                /\ Keys(education') = {Key(EduU1), Key(EduU2)}
                /\ Cardinality(resume_file') = 2]_vars

\* The second upload of the scenario has been merged.
C10_Witness ==
    \E p \in Procs :
        /\ proc[p].pc = "embed"
        /\ proc[p].existing # 0
        /\ proc[p].data.education = <<EduU1, EduU2>>
        /\ nextId.education = 4
        /\ Cardinality(person) = 1
        /\ Cardinality(education) = 2
        /\ Cardinality(resume_file) = 2

\* Worker p answers update_cv from its status check in this step.
UpdateCheckStep(p) == proc[p].pc = "u_check" /\ proc'[p] # proc[p]

\* C11: update_cv on a ResumeFile whose status is QUEUED or ERROR (not
\* SUCCESS) is answered with the conflict error 400 and writes nothing: the
\* rows of the three tables and the Vector Index are unchanged, and the
\* handler ends there.
C11_UpdateConflictRejected ==
    [][\A p \in Procs :
         (UpdateCheckStep(p) /\ \E r \in get_resume_file(proc[p].rid) : r.status # "SUCCESS") =>
           /\ proc'[p].pc = "done"
           /\ proc'[p].resp = "400"
           /\ <<person, education, resume_file, index>>' = <<person, education, resume_file, index>>]_vars

\* update_cv was rejected for a resume file that an upload left QUEUED, and
\* the row, its Person and the (empty) index are as they were.
C11_Witness ==
    \E p \in Procs :
        /\ proc[p].pc = "done"
        /\ proc[p].kind = "update"
        /\ proc[p].resp = "400"
        /\ \E r \in get_resume_file(proc[p].rid) :
             r.status = "QUEUED" /\ get_person(r.person_id) # {}
        /\ \A pt \in index : pt.id # proc[p].rid

\* C12: for every ResumeFile id r on which no pipeline attempt is in flight,
\* the Vector Index holds an Embedding Record with id r if and only if the
\* ResumeFile r was set to SUCCESS at some point.
C12_PointIffSucceeded ==
    \A r \in 1..(nextId.resume - 1) :
        ~InFlightOn(r) => ((\E pt \in index : pt.id = r) <=> r \in succeeded)

\* C13: a folder ingestion that still has documents after the current one
\* does not end on a failure of the current one: it goes on to the next
\* document.
C13_FolderFailureSkipsDocument ==
    [][\A p \in Procs :
         (proc[p].kind = "folder" /\ proc[p].pc # "done" /\ proc[p].docs > 1) =>
           proc'[p].pc # "done"]_vars

\* C14: no Person row has the empty string as its email: an upload whose
\* extracted email is empty is rejected before anything is written.
C14_NoEmptyEmail ==
    \A r \in person : r.email # <<>>

\* C15: an upload that found no Person for its email and commits after a
\* concurrent upload has created that Person does not fail: it ends as a
\* merge, its ResumeFile owned by the one Person of that email.
C15_CreateRaceRetriedAsMerge ==
    [][\A p \in Procs :
         ( /\ proc[p].pc = "commit"
           /\ proc[p].existing = 0
           /\ FullNameNotNull(proc[p].data.name)
           /\ get_person_by_email(proc[p].email) # 0
           /\ proc'[p] # proc[p] ) =>
             /\ proc'[p].pc = "embed"
             /\ proc'[p].pid = get_person_by_email(proc[p].email)
             /\ \E r \in resume_file' : r.id = proc'[p].rid /\ r.person_id = proc'[p].pid]_vars

\* C16: when embed_cv fails in a pipeline, the handler ends with the error
\* and the status of the ResumeFile it processes is ERROR afterwards.
C16_EmbedFailureSetsError ==
    [][\A p \in Procs :
         (proc[p].pc = "embed" /\ proc'[p].pc = "done") =>
           /\ proc'[p].resp = "500"
           /\ \A r \in resume_file' : r.id = proc[p].rid => r.status = "ERROR"]_vars

\* The status of the resume file rid, None when there is no such row.
StatusOf(rid) ==
    IF get_resume_file(rid) = {} THEN None ELSE (CHOOSE r \in get_resume_file(rid) : TRUE).status

\* C17: every write of a status is a transition QUEUED -> SUCCESS, QUEUED ->
\* ERROR or a restart to QUEUED of a concluded attempt: the write of QUEUED
\* by update_cv finds SUCCESS or ERROR, the write of SUCCESS at the end of a
\* pipeline finds QUEUED, and no other change of a status happens.
C17_StatusTransitions ==
    [][/\ \A p \in Procs :
            (proc[p].pc = "u_queue" /\ proc'[p].pc = "u_person") =>
              StatusOf(proc[p].rid) \in {"SUCCESS", "ERROR"}
       /\ \A p \in Procs :
            (proc[p].pc = "status" /\ proc'[p] # proc[p] /\ StatusOf(proc[p].rid) # None) =>
              StatusOf(proc[p].rid) = "QUEUED"
       /\ \A r \in resume_file, r2 \in resume_file' :
            (r.id = r2.id /\ r.status # r2.status) =>
              <<r.status, r2.status>> \in {<<"QUEUED", "SUCCESS">>, <<"QUEUED", "ERROR">>,
                                          <<"SUCCESS", "QUEUED">>, <<"ERROR", "QUEUED">>}]_vars

\* C18: every stored Person.email equals its own lowercase form.
C18_StoredEmailLowercase ==
    \A r \in person : r.email = Lower(r.email)

\* Worker p upserts a point in this step.
EmbedStep(p) == proc[p].pc = "embed" /\ proc'[p].pc = "status"

\* C19: the Embedding Record a pipeline writes has the id of the ResumeFile
\* being processed and the person_id of the Person that owns that ResumeFile
\* (uploads and update_cv alike), and so has every record whose ResumeFile
\* exists.
C19_PointIdsMatchResume ==
    [][/\ \A p \in Procs :
            EmbedStep(p) =>
              \E pt \in index' \ {q \in index : q.id # proc[p].rid} :
                 /\ pt.id = proc[p].rid
                 /\ \A r \in get_resume_file(proc[p].rid) :
                      pt.payload.person_id = r.person_id
       /\ \A pt \in index' : \A r \in resume_file' :
            r.id = pt.id => pt.payload.person_id = r.person_id]_vars

\* update_cv has written the point of the second resume file of a Person:
\* the ids of the resume and of its owner differ.
C19_Witness ==
    \E p \in Procs :
        /\ proc[p].pc = "status"
        /\ proc[p].kind = "update"
        /\ proc[p].rid = 2
        /\ \E r \in resume_file : r.id = 2 /\ r.person_id = 1
        /\ \E pt \in index : pt.id = 2 /\ pt.payload.person_id = 1

\* Worker p upserts a point whose id the index already holds with another
\* vector and payload.
ReUpsertStep(p) ==
    /\ EmbedStep(p)
    /\ \E q \in index :
         /\ q.id = proc[p].rid
         /\ q # CvPoint(proc[p].pid, proc[p].rid, proc[p].data.payload)

\* C20: upserting a resume id that the index already holds with a different
\* payload leaves exactly one Embedding Record for that id, with the vector
\* and the payload of the second upsert.
C20_UpsertReplaces ==
    [][\A p \in Procs :
         ReUpsertStep(p) =>
           {q \in index' : q.id = proc[p].rid}
             = {Point(proc[p].rid, Embed(proc[p].data.payload.description),
                      proc[p].data.payload.skills,
                      proc[p].data.payload.years_of_experience, proc[p].pid)}]_vars

\* update_cv has upserted the java payload over the python point of resume 1.
C20_Witness ==
    \E p \in Procs :
        /\ proc[p].pc = "status"
        /\ proc[p].kind = "update"
        /\ proc[p].rid = 1
        /\ proc[p].data.payload = JavaPayload
        /\ succeeded = {1}
        /\ {q \in index : q.id = 1} = {Point(1, 2, {"java"}, 7, 1)}

\* Worker p answers delete_person in this step.
DeletePersonStep(p) ==
    proc[p].pc = "idle" /\ proc'[p].pc = "done" /\ proc'[p].kind = "delete_person"

\* C21: a successful delete_person(pid) removes the Person row pid and every
\* Education and ResumeFile row it owns, and leaves every other row as it is.
C21_DeletePersonCascades ==
    [][\A p \in Procs :
         (DeletePersonStep(p) /\ proc'[p].resp = "200") =>
           LET pid == proc'[p].pid
           IN  /\ person' = {r \in person : r.id # pid}
               /\ education' = {e \in education : e.person_id # pid}
               /\ resume_file' = {r \in resume_file : r.person_id # pid}]_vars

\* A Person with an education and a resume file was deleted while another
\* Person keeps its education and resume file.
C21_Witness ==
    \E p \in Procs :
        /\ proc[p].pc = "done"
        /\ proc[p].kind = "delete_person"
        /\ proc[p].resp = "200"
        /\ nextId.person = 3
        /\ Cardinality(person) = 1
        /\ \A r \in person :
             /\ r.id # proc[p].pid
             /\ get_educations_by_person_id(r.id) # {}
             /\ get_resume_files_by_person_id(r.id) # {}
        /\ get_educations_by_person_id(proc[p].pid) = {}
        /\ get_resume_files_by_person_id(proc[p].pid) = {}

\* C22: on both branches the resume file create_person hands back to the
\* handler, which the handler embeds, is the one row this call has inserted,
\* not a row the Person had before.
C22_ReturnsNewResumeFiles ==
    [][\A p \in Procs :
         CommitStep(p) =>
           /\ get_resume_file(proc'[p].rid) = {}
           /\ {r.id : r \in resume_file' \ resume_file} = {proc'[p].rid}]_vars

\* A merge has handed back the second resume file of a Person, and the
\* first one is still stored.
C22_Witness ==
    \E p \in Procs :
        /\ proc[p].pc = "embed"
        /\ proc[p].existing # 0
        /\ proc[p].rid = 2
        /\ {r.id : r \in get_resume_files_by_person_id(proc[p].existing)} = {1, 2}

\* Worker p answers delete_resume_file in this step.
DeleteResumeFileStep(p) ==
    proc[p].pc = "idle" /\ proc'[p].pc = "done" /\ proc'[p].kind = "delete_resume_file"

StoresSame == <<person, education, resume_file, index>>' = <<person, education, resume_file, index>>

\* C23: delete_person, delete_resume_file and update_cv addressed to an id
\* that has no row answer 404, the status write of a pipeline whose resume
\* file has no row ends the handler with an error, and none of them changes
\* the Identity Store or the Vector Index.
C23_NotFoundChangesNothing ==
    [][\A p \in Procs :
         /\ (DeletePersonStep(p) /\ get_person(proc'[p].pid) = {}) =>
               (proc'[p].resp = "404" /\ StoresSame)
         /\ (DeleteResumeFileStep(p) /\ get_resume_file(proc'[p].rid) = {}) =>
               (proc'[p].resp = "404" /\ StoresSame)
         /\ (UpdateCheckStep(p) /\ get_resume_file(proc[p].rid) = {}) =>
               (proc'[p].pc = "done" /\ proc'[p].resp = "404" /\ StoresSame)
         /\ (proc[p].pc = "status" /\ proc'[p] # proc[p] /\ get_resume_file(proc[p].rid) = {}) =>
               (proc'[p].pc = "done" /\ proc'[p].resp = "500" /\ StoresSame)]_vars

\* The status write of an upload found no row (the resume file was deleted
\* while the upload was embedding) and the upload ended with an error.
C23_Witness ==
    \E p \in Procs :
        /\ proc[p].pc = "done"
        /\ proc[p].kind = "upload"
        /\ proc[p].resp = "500"
        /\ proc[p].rid # 0
        /\ get_resume_file(proc[p].rid) = {}
        /\ \E pt \in index : pt.id = proc[p].rid
        /\ proc[p].rid \notin succeeded
        /\ nreq = 2

\* C24: a search that names no skills and no minimum years of experience
\* sends no query filter to the Vector Index.
C24_UnconstrainedSearchSendsNoFilter ==
    [][\A p \in Procs :
         ( /\ SearchStep(p)
           /\ proc'[p].req.skills = <<>>
           /\ proc'[p].req.years_of_experience = 0 ) =>
             ~SendsFilter(SearchFilter(proc'[p].req))]_vars

\* The update_cv pipeline of worker p is past its status check.
UpdateInFlight(p) ==
    proc[p].kind = "update" /\ proc[p].pc \in {"u_queue", "u_person", "u_edu", "embed", "status"}

\* C25: no two update_cv pipelines are past the status check for the same
\* ResumeFile at the same time.
C25_OneUpdatePerResume ==
    \A p, q \in Procs :
        (p # q /\ UpdateInFlight(p) /\ UpdateInFlight(q)) => proc[p].rid # proc[q].rid

\* Worker p writes SUCCESS in this step.
SuccessStep(p) ==
    /\ proc[p].pc = "status"
    /\ proc'[p].pc \in {"done", "next_doc"}
    /\ proc[p].rid \in succeeded'

\* C26: every ResumeFile whose status is SUCCESS has an Embedding Record
\* with its id, and at the write of SUCCESS the index holds the record that
\* this attempt has upserted.
C26_SuccessHasPoint ==
    [][/\ \A r \in resume_file' :
            r.status = "SUCCESS" => \E pt \in index' : pt.id = r.id
       /\ \A p \in Procs :
            SuccessStep(p) =>
              CvPoint(proc[p].pid, proc[p].rid, proc[p].data.payload) \in index]_vars

\* An upload and an update have both ended in SUCCESS, each with its point.
C26_Witness ==
    /\ \E r \in resume_file : r.id = 1 /\ r.status = "SUCCESS"
    /\ \E p \in Procs :
         /\ proc[p].pc = "done"
         /\ proc[p].kind = "update"
         /\ proc[p].resp = "200"
         /\ proc[p].rid = 1
    /\ \E pt \in index : pt.id = 1 /\ pt.payload.skills = {"java"}

\* C27: the Vector Index changes only by the upsert of a pipeline whose
\* ResumeFile row is committed: the ids it embeds under are those of a stored
\* row and of its owner; and embed_cv called without a person id or a resume
\* id leaves the index as it is.
C27_EmbedAfterPersist ==
    [][/\ index' # index =>
            \E p \in Procs :
               /\ EmbedStep(p)
               /\ proc[p].pid # 0
               /\ proc[p].rid # 0
               /\ \E r \in resume_file : r.id = proc[p].rid /\ r.person_id = proc[p].pid
               /\ \A pt \in index' \ index : pt.id = proc[p].rid
       /\ \A p \in Procs :
            (proc[p].pc = "embed" /\ (proc[p].pid = 0 \/ proc[p].rid = 0)) => index' = index]_vars

\* An upload has upserted its point under the id of the row create_person
\* committed, which is still QUEUED.
C27_Witness ==
    \E p \in Procs :
        /\ proc[p].pc = "status"
        /\ proc[p].kind = "upload"
        /\ proc[p].rid = 1
        /\ \E r \in resume_file : r.id = 1 /\ r.status = "QUEUED" /\ r.person_id = proc[p].pid
        /\ \E pt \in index : pt.id = 1 /\ pt.payload.person_id = proc[p].pid
        /\ succeeded = {}

\* C28: a ResumeFile row that appears in the store appears with status
\* QUEUED, and the row of an upload pipeline (single or folder) is QUEUED
\* when the pipeline is about to embed.
C28_CreatedQueued ==
    [][/\ \A r \in resume_file' : get_resume_file(r.id) = {} => r.status = "QUEUED"
       /\ \A p \in Procs :
            (proc'[p].pc = "embed" /\ proc'[p].kind \in {"upload", "folder"}) =>
              \E r \in resume_file' : r.id = proc'[p].rid /\ r.status = "QUEUED"]_vars

\* The second document of a folder is about to be embedded: its row is
\* QUEUED while the row of the first is SUCCESS.
C28_Witness ==
    \E p \in Procs :
        /\ proc[p].pc = "embed"
        /\ proc[p].kind = "folder"
        /\ proc[p].rid = 2
        /\ \E r \in resume_file : r.id = 2 /\ r.status = "QUEUED"
        /\ \E r \in resume_file : r.id = 1 /\ r.status = "SUCCESS"

\* Worker p skips a document of its folder in this step.
SkipStep(p) ==
    /\ proc[p].kind = "folder"
    /\ proc[p].pc = "next_doc"
    /\ proc'[p].pc = "next_doc"
    /\ proc'[p].i = proc[p].i + 1

\* C29: in a folder ingestion no document without a name enters the
\* pipeline; skipping it changes neither store, and the loop goes on with the
\* documents after it.
C29_NamelessDocumentSkipped ==
    [][\A p \in Procs :
         /\ (proc'[p].kind = "folder" /\ proc'[p].pc = "lookup") => proc'[p].data.name # None
         /\ SkipStep(p) =>
               /\ StoresSame
               /\ nextId' = nextId
               /\ proc'[p].docs = proc[p].docs - 1]_vars

\* The first document of a folder was skipped, nothing was stored for it,
\* and the second document (with a name) is being processed.
C29_Witness ==
    \E p \in Procs :
        /\ proc[p].kind = "folder"
        /\ proc[p].pc = "commit"
        /\ proc[p].i = 1
        /\ proc[p].data.name # None
        /\ person = {} /\ education = {} /\ resume_file = {} /\ index = {}
        /\ nextId = [person |-> 1, education |-> 1, resume |-> 1]

\* A ResumeFile row that a concluded attempt has left QUEUED.
Stuck(r) == r.status = "QUEUED" /\ ~InFlightOn(r.id)

\* C30: a ResumeFile that a failed attempt has left QUEUED is never changed
\* by a later request, a deletion apart: its row stays as it is and no
\* pipeline gets past the status check of update_cv on it.
C30_QueuedStaysQueued ==
    [][\A r \in resume_file :
         Stuck(r) =>
           /\ \A r2 \in resume_file' : r2.id = r.id => r2 = r
           /\ \A p \in Procs :
                proc'[p].rid = r.id =>
                  proc'[p].pc \notin {"u_queue", "u_person", "u_edu", "embed", "status"}]_vars

\* The first resume file of a Person was left QUEUED by a failed attempt,
\* and a later upload for the same Person has ended in SUCCESS without
\* changing it.
C30_Witness ==
    \E p \in Procs :
        /\ proc[p].pc = "done"
        /\ proc[p].kind = "upload"
        /\ proc[p].resp = "201"
        /\ proc[p].rid = 2
        /\ \E r1, r2 \in resume_file :
             /\ r1.id = 1 /\ r1.status = "QUEUED"
             /\ r2.id = 2 /\ r2.status = "SUCCESS"
             /\ r1.person_id = r2.person_id

\* C31: no request handler writes the status ERROR: in every state reachable
\* through the API the status of every ResumeFile is QUEUED or SUCCESS.
C31_NoErrorStatus ==
    \A r \in resume_file : r.status \in {"QUEUED", "SUCCESS"}

\* An upload has failed at embed_cv and has answered 500, its row is still
\* QUEUED, and another pipeline has written SUCCESS.
C31_Witness ==
    \E p \in Procs :
        /\ proc[p].pc = "done"
        /\ proc[p].kind = "upload"
        /\ proc[p].resp = "500"
        /\ proc[p].rid # 0
        /\ StatusOf(proc[p].rid) = "QUEUED"
        /\ \E r \in resume_file : r.status = "SUCCESS"

\* C32: when two concurrent create_person calls both take the merge branch
\* for the same existing Person and both supply an education with the same
\* (institution, field, degree), a triple the Person did not hold when the
\* call loaded its educations, the Person has at most one Education row for
\* that triple once both have committed.
C32_ConcurrentMergeOneRow ==
    [][\A p, q \in Procs :
         (/\ p # q
          /\ MergeStep(p)
          /\ proc[q].pc \in {"embed", "status"}
          /\ proc[q].kind = "upload"
          /\ proc[q].existing = proc[p].existing)
         => \A k \in (Keys(Range(proc[p].data.education))
                        \cap Keys(Range(proc[q].data.education)))
                     \ Keys(Range(proc[p].snap)) :
              Cardinality({e \in education' :
                             e.person_id = proc[p].existing /\ Key(e) = k}) <= 1]_vars

\* C33: raw_texts and file_paths of the result of ingest_folder are aligned
\* (raw_texts[i] is the text of the file named file_paths[i]), so the
\* ResumeFile a folder upload creates for a document carries the name of the
\* file the document's text was extracted from, also when a PDF of the folder
\* fails text extraction.
C33_FolderFilenameOfSource ==
    [][\A p \in Procs :
         (proc[p].kind = "folder" /\ CommitStep(p)) =>
           LET raw_texts == proc[p].ingested_data.raw_texts
               file_paths == proc[p].ingested_data.file_paths
           IN  /\ \A k \in DOMAIN raw_texts : raw_texts[k].from = file_paths[k]
               /\ \E r \in resume_file' :
                    /\ r.id = proc'[p].rid
                    /\ r.filename = raw_texts[proc[p].i + 1].from]_vars

\* Worker p commits update_education_by_person_id in this step.
UpdateEducationStep(p) == proc[p].pc = "u_edu" /\ proc'[p].pc = "embed"

\* C34: update_education_by_person_id(p, L) replaces the educations of p:
\* afterwards p owns exactly one Education per distinct (institution, field,
\* degree) of L, which is the last entry of L with that triple; every
\* Education p owned before is removed; the educations of every other Person
\* are unchanged.
C34_UpdateReplacesEducations ==
    [][\A p \in Procs :
         UpdateEducationStep(p) =>
           LET pid == proc[p].pid
               L == proc[p].data.education
               before == get_educations_by_person_id(pid)
               R == {e \in education' : e.person_id = pid}
           IN  /\ Keys(R) = Keys(Range(L))
               /\ \A e1, e2 \in R : Key(e1) = Key(e2) => e1 = e2
               /\ \A e \in R :
                    \E k \in DOMAIN L :
                        /\ L[k] = Entry(e)
                        /\ \A j \in DOMAIN L : j > k => Key(L[j]) # Key(e)
               /\ {e.id : e \in before} \cap {e.id : e \in education'} = {}
               /\ {e \in education' : e.person_id # pid}
                    = {e \in education : e.person_id # pid}]_vars

\* An update has rewritten the educations of a Person that owned two rows of
\* one triple from a list that holds the triple twice: the Person owns one new
\* row, of the last entry, and another Person still owns its row.
C34_Witness ==
    \E p \in Procs :
        /\ proc[p].pc = "embed"
        /\ proc[p].kind = "update"
        /\ proc[p].data.education = <<EduU1, EduU1b>>
        /\ get_educations_by_person_id(proc[p].pid) = {EducationRow(4, proc[p].pid, EduU1b)}
        /\ \E e \in education : e.person_id # proc[p].pid /\ e.id = 3

\* C35: on the merge branch create_person leaves the row of the existing
\* Person (id, full_name, email) as it was and leaves every ResumeFile the
\* Person owned attached and unchanged; the one ResumeFile that appears is the
\* one supplied, and nothing of another Person and no point of the index
\* changes.
C35_MergeKeepsPersonAndResumes ==
    [][\A p \in Procs :
         MergeStep(p) =>
           LET ex == proc[p].existing
           IN  /\ person' = person
               /\ \A r \in get_resume_files_by_person_id(ex) : r \in resume_file'
               /\ resume_file' \ resume_file
                    = {ResumeFileRow(proc'[p].rid, ex, proc[p].filename, "QUEUED")}
               /\ resume_file \subseteq resume_file'
               /\ {e \in education' : e.person_id # ex} = {e \in education : e.person_id # ex}
               /\ index' = index]_vars

\* A CV with the email "A" has been merged into the Person stored with the
\* email "a": the row of the Person is as it was, its first resume file is
\* still SUCCESS and the new one is QUEUED.
C35_Witness ==
    \E p \in Procs :
        /\ proc[p].pc = "embed"
        /\ proc[p].kind = "upload"
        /\ proc[p].existing = 1
        /\ proc[p].data.email = <<"A">>
        /\ person = {PersonRow(1, "Alice", <<"a">>)}
        /\ resume_file = {ResumeFileRow(1, 1, "cv.pdf", "SUCCESS"),
                          ResumeFileRow(2, 1, "cv.pdf", "QUEUED")}
        /\ proc[p].rid = 2

\* Worker p leaves embed_cv by an exception in this step.
EmbedFailStep(p) == proc[p].pc = "embed" /\ proc'[p].pc = "done"

\* C36: when the provider call fails inside embed_cv the Vector Index is
\* unchanged: no point is inserted, and a point that exists under the resume
\* id keeps its vector and payload.
C36_FailedEmbedKeepsIndex ==
    [][\A p \in Procs :
         EmbedFailStep(p) =>
           /\ index' = index
           /\ \A pt \in index : pt.id = proc[p].rid => pt \in index'
           /\ (\A pt \in index : pt.id # proc[p].rid)
                => \A pt \in index' : pt.id # proc[p].rid]_vars

\* An update whose new CV renamed the email of the Person to "A" has failed
\* at embed_cv: the resume file is QUEUED and its point still carries the
\* payload of the first upload.
C36_Witness ==
    \E p \in Procs :
        /\ proc[p].pc = "done"
        /\ proc[p].kind = "update"
        /\ proc[p].resp = "500"
        /\ StatusOf(proc[p].rid) = "QUEUED"
        /\ \E r \in person : r.id = proc[p].pid /\ r.email = <<"A">>
        /\ \E pt \in index : pt = CvPoint(proc[p].pid, proc[p].rid, PyPayload)
====
